---- MODULE Spec2Model ----
(***************************************************************************)
(* A model of teensymat::Matrix<Scalar> (the second, more complete class   *)
(* definition of include/TeensyOpt/TeensyMat/matrix_core.hpp), with        *)
(* Scalar = int.  A driver constructs one Matrix `A` with one of the       *)
(* constructors and then calls one operation on it.  Every operation is    *)
(* one action; the loops of an operation are computed by RECURSIVE         *)
(* operators that stop at the first exception, as the C++ loops do.  The   *)
(* initializer-list constructor is modelled one loop iteration per step.   *)
(*                                                                         *)
(* A std::vector is a sequence; the element at C++ index i is seq[i + 1].  *)
(* All sizes stay far below the width of size_t and of int, so no          *)
(* arithmetic in the model wraps.                                          *)
(***************************************************************************)
EXTENDS Integers, Sequences, FiniteSets, TLC

\* ---------------------------------------------------------------- bounds
\* largest number of rows the driver asks for
MaxRows == 3
\* largest number of columns the driver asks for
MaxCols == 2
\* largest stride handed to the strided constructor
MaxStride == 2
\* longest caller buffer handed to a buffer-taking constructor
MaxBuf == 2
\* longest initializer list handed to the literal constructor
MaxElems == 4
\* largest scalar value the driver supplies
MaxVal == 1

\* largest element handed to the fill constructor
MaxFill == 2
\* largest scalar handed to a row/column mutator or a scalar primitive
MaxScalar == 2

\* the number of nested calls the call stack has room for
MaxDepth == 3

Vals == 0..MaxVal
FillVals == 0..MaxFill
ScalarArgs == (-1)..MaxScalar
RowArgs == 0..MaxRows
ColArgs == 0..MaxCols
StrideArgs == 0..MaxStride

\* all sequences over S of length 0..n
RECURSIVE SeqsUpTo(_, _)
SeqsUpTo(S, n) ==
  IF n = 0 THEN {<<>>}
  ELSE LET shorter == SeqsUpTo(S, n - 1)
       IN shorter \cup {Append(s, v) : s \in {t \in shorter : Len(t) = n - 1}, v \in S}

\* the caller vectors handed to the buffer-taking constructors
Buffers == SeqsUpTo(Vals, MaxBuf)
ElementLists == SeqsUpTo(Vals, MaxElems)

\* std::vector<Scalar>(n, element)
FilledVector(n, element) == [i \in 1..n |-> element]

\* ------------------------------------------------------------ error names
NoError == "none"
InvalidIndex == "Invalid index"
BeyondData == "Tried accessing element beyond Matrix data"
TooMany == "Received too many elements to initialize Matrix"
TooFew == "Received too few elements to initialize Matrix"
IntOverflow == "signed integer overflow"
ShapeMismatch == "Tried to add Matrices of different shapes"

\* ----------------------------------------------------------- constructors
\* Matrix()
MatrixDefault ==
  [data |-> <<>>, row_stride |-> 0, col_stride |-> 0,
   nrows |-> 0, ncols |-> 0, matrix_size |-> 0]

\* a variant of the fill constructor that brace-initializes the buffer,
\* std::vector<Scalar>{nrows * ncols, element}: a two-element vector
MatrixFillBraced(nrows, ncols, element) ==
  [data |-> <<nrows * ncols, element>>,
   row_stride |-> ncols, col_stride |-> 1,
   nrows |-> nrows, ncols |-> ncols, matrix_size |-> nrows * ncols]

\* Matrix(nrows, ncols, element)
MatrixFill(nrows, ncols, element) ==
  [data |-> FilledVector(nrows * ncols, element),
   row_stride |-> ncols, col_stride |-> 1,
   nrows |-> nrows, ncols |-> ncols, matrix_size |-> nrows * ncols]

\* Matrix(nrows, ncols): delegates to the fill constructor with (Scalar)0
MatrixZeros(nrows, ncols) == MatrixFill(nrows, ncols, 0)

\* Matrix(nrows, ncols, std::vector<Scalar> elements): the parameter is taken
\* by value and data(elements) copy-constructs the member from it
MatrixVector(nrows, ncols, elems) ==
  [data |-> elems, row_stride |-> ncols, col_stride |-> 1,
   nrows |-> nrows, ncols |-> ncols, matrix_size |-> nrows * ncols]

\* a variant of the strided constructor that takes matrix_size from the
\* vector handed in
MatrixStridedSizeOfVector(nrows, ncols, rs, cs, elems) ==
  [data |-> elems, row_stride |-> rs, col_stride |-> cs,
   nrows |-> nrows, ncols |-> ncols, matrix_size |-> Len(elems)]

\* Matrix(nrows, ncols, row_stride, col_stride, std::vector<Scalar> elements)
MatrixStrided(nrows, ncols, rs, cs, elems) ==
  [data |-> elems, row_stride |-> rs, col_stride |-> cs,
   nrows |-> nrows, ncols |-> ncols, matrix_size |-> nrows * ncols]

\* --------------------------------------------------------------- accessor
\* a variant of the first test that lets the index one past the end through
LogicalOutOfBoundsOffByOne(m, row, col) == row > m.nrows \/ col > m.ncols

\* first test of operator(): row >= nrows || col >= ncols
LogicalOutOfBounds(m, row, col) == row >= m.nrows \/ col >= m.ncols

\* a variant of the offset computation with the two strides exchanged
DataPositionStridesExchanged(m, row, col) ==
  row * m.col_stride + col * m.row_stride

\* size_t data_position = row * row_stride + col * col_stride
DataPosition(m, row, col) == row * m.row_stride + col * m.col_stride

\* a variant of the second test that trusts matrix_size alone
PhysicalOutOfBoundsSizeOnly(m, pos) == pos >= m.matrix_size

\* second test of operator(): data_position >= matrix_size ||
\* data_position >= data.size()
PhysicalOutOfBounds(m, pos) == pos >= m.matrix_size \/ pos >= Len(m.data)

\* a variant of operator() that does the offset test before the index test
AccessErrOffsetFirst(m, row, col) ==
  IF PhysicalOutOfBounds(m, DataPosition(m, row, col)) THEN BeyondData
  ELSE IF LogicalOutOfBounds(m, row, col) THEN InvalidIndex
  ELSE NoError

\* the exception operator()(row, col) throws, or NoError
AccessErr(m, row, col) ==
  IF LogicalOutOfBounds(m, row, col) THEN InvalidIndex
  ELSE IF PhysicalOutOfBounds(m, DataPosition(m, row, col)) THEN BeyondData
  ELSE NoError

\* *m(row, col), for an access that does not throw
Get(m, row, col) == m.data[DataPosition(m, row, col) + 1]

\* *m(row, col) = v, for an access that does not throw
Put(m, row, col, v) ==
  [m EXCEPT !.data = [@ EXCEPT ![DataPosition(m, row, col) + 1] = v]]

\* ------------------------------------------------------ row/column swaps
\* a variant of the exchange without the temporary: a = b; b = a;
SwapElemsNoTemp(m, r1, c1, r2, c2) ==
  LET m1 == Put(m, r1, c1, Get(m, r2, c2))
  IN Put(m1, r2, c2, Get(m1, r1, c1))

\* a variant of the exchange that only copies the second element over the
\* first: a = b;
SwapElemsCopyOnly(m, r1, c1, r2, c2) == Put(m, r1, c1, Get(m, r2, c2))

\* std::swap(*m(r1, c1), *m(r2, c2)) once both references are obtained
SwapElems(m, r1, c1, r2, c2) ==
  LET tmp == Get(m, r1, c1)
      m1 == Put(m, r1, c1, Get(m, r2, c2))
  IN Put(m1, r2, c2, tmp)

\* The exception thrown while the two arguments of std::swap are evaluated.
\* C++ leaves the order of evaluation of function arguments unspecified, so
\* firstArg (1 or 2) says which accessor call runs first.
PairErr(m, r1, c1, r2, c2, firstArg) ==
  LET e1 == AccessErr(m, r1, c1)
      e2 == AccessErr(m, r2, c2)
  IN IF firstArg = 1 THEN (IF e1 # NoError THEN e1 ELSE e2)
     ELSE (IF e2 # NoError THEN e2 ELSE e1)

\* the iterations col, col + 1, ... of swap_row's loop
RECURSIVE SwapRowFrom(_, _, _, _, _)
SwapRowFrom(m, row1, row2, col, firstArg) ==
  IF col >= m.ncols THEN [m |-> m, err |-> NoError]
  ELSE LET e == PairErr(m, row1, col, row2, col, firstArg)
       IN IF e # NoError THEN [m |-> m, err |-> e]
          ELSE SwapRowFrom(SwapElems(m, row1, col, row2, col),
                           row1, row2, col + 1, firstArg)

\* swap_row(row1, row2)
SwapRow(m, row1, row2, firstArg) == SwapRowFrom(m, row1, row2, 0, firstArg)

\* the iterations row, row + 1, ... of swap_col's loop
RECURSIVE SwapColFrom(_, _, _, _, _)
SwapColFrom(m, col1, col2, row, firstArg) ==
  IF row >= m.nrows THEN [m |-> m, err |-> NoError]
  ELSE LET e == PairErr(m, row, col1, row, col2, firstArg)
       IN IF e # NoError THEN [m |-> m, err |-> e]
          ELSE SwapColFrom(SwapElems(m, row, col1, row, col2),
                           col1, col2, row + 1, firstArg)

\* swap_col(col1, col2)
SwapCol(m, col1, col2, firstArg) == SwapColFrom(m, col1, col2, 0, firstArg)

\* --------------------------------------------- row/column scalar mutators
Abs(x) == IF x < 0 THEN -x ELSE x

\* a / b on int, b # 0: the quotient is truncated towards zero
TruncDiv(a, b) ==
  IF (a < 0) # (b < 0) THEN -(Abs(a) \div Abs(b)) ELSE Abs(a) \div Abs(b)

\* the iterations col, col + 1, ... of mult_row_scalar's loop
RECURSIVE MultRowFrom(_, _, _, _)
MultRowFrom(m, row, col, by) ==
  IF col >= m.ncols THEN [m |-> m, err |-> NoError]
  ELSE IF AccessErr(m, row, col) # NoError
         THEN [m |-> m, err |-> AccessErr(m, row, col)]
  ELSE MultRowFrom(Put(m, row, col, Get(m, row, col) * by), row, col + 1, by)

\* mult_row_scalar(row, by)
MultRowScalar(m, row, by) == MultRowFrom(m, row, 0, by)

\* the iterations row, row + 1, ... of mult_col_scalar's loop
RECURSIVE MultColFrom(_, _, _, _)
MultColFrom(m, column, row, by) ==
  IF row >= m.nrows THEN [m |-> m, err |-> NoError]
  ELSE IF AccessErr(m, row, column) # NoError
         THEN [m |-> m, err |-> AccessErr(m, row, column)]
  ELSE MultColFrom(Put(m, row, column, Get(m, row, column) * by),
                   column, row + 1, by)

\* a variant of mult_col_scalar that delegates to the row loop
MultColScalarViaRow(m, column, by) == MultRowFrom(m, column, 0, by)

\* mult_col_scalar(column, by)
MultColScalar(m, column, by) == MultColFrom(m, column, 0, by)

\* div_row_scalar(row, by): mult_row_scalar(row, ((Scalar)1) / by)
DivRowScalar(m, row, by) == MultRowScalar(m, row, TruncDiv(1, by))

\* div_col_scalar(column, by): mult_col_scalar(column, ((Scalar)1) / by)
DivColScalar(m, column, by) == MultColScalar(m, column, TruncDiv(1, by))

\* the iterations col, col + 1, ... of add_row_scalar's loop
RECURSIVE AddRowFrom(_, _, _, _)
AddRowFrom(m, row, col, what) ==
  IF col >= m.ncols THEN [m |-> m, err |-> NoError]
  ELSE IF AccessErr(m, row, col) # NoError
         THEN [m |-> m, err |-> AccessErr(m, row, col)]
  ELSE AddRowFrom(Put(m, row, col, Get(m, row, col) + what), row, col + 1, what)

\* add_row_scalar(row, what)
AddRowScalar(m, row, what) == AddRowFrom(m, row, 0, what)

\* the iterations row, row + 1, ... of add_col_scalar's loop
RECURSIVE AddColFrom(_, _, _, _)
AddColFrom(m, column, row, what) ==
  IF row >= m.nrows THEN [m |-> m, err |-> NoError]
  ELSE IF AccessErr(m, row, column) # NoError
         THEN [m |-> m, err |-> AccessErr(m, row, column)]
  ELSE AddColFrom(Put(m, row, column, Get(m, row, column) + what),
                  column, row + 1, what)

\* add_col_scalar(column, what)
AddColScalar(m, column, what) == AddColFrom(m, column, 0, what)

\* a variant of sub_row_scalar that forgets to negate
SubRowScalarNoNegate(m, row, what) == AddRowScalar(m, row, what)

\* sub_row_scalar(row, what): add_row_scalar(row, -what)
SubRowScalar(m, row, what) == AddRowScalar(m, row, -what)

\* sub_col_scalar(column, what): add_col_scalar(column, -what)
SubColScalar(m, column, what) == AddColScalar(m, column, -what)

\* -------------------------------------------------------------- transpose
\* a variant of transpose() that swaps the dimensions but not the strides
TransposeDimsOnly(m) ==
  MatrixStrided(m.ncols, m.nrows, m.row_stride, m.col_stride, m.data)

\* transpose(): Matrix<Scalar>{ncols, nrows, col_stride, row_stride,
\* transpose_data} over a copy of the buffer
Transpose(m) ==
  MatrixStrided(m.ncols, m.nrows, m.col_stride, m.row_stride, m.data)

\* ------------------------------------------------- elementwise framework
\* the lambdas the arithmetic operators hand to the framework
Fns == {"add", "sub", "mul"}

\* to_apply(l, r)
Apply(fn, l, r) ==
  CASE fn = "add" -> l + r
    [] fn = "sub" -> l - r
    [] fn = "mul" -> l * r

\* INT_MAX of the 32-bit int the tests instantiate Matrix with
IntMax == 2147483647

\* the product l * r leaves the range of int: undefined behaviour in the
\* source, reported by the loops as IntOverflow
Overflows(fn, l, r) ==
  fn = "mul" /\ l # 0 /\ r # 0 /\ Abs(l) > IntMax \div Abs(r)

\* a variant of the shape test that rejects only operands differing in both
\* dimensions
ShapesDifferInBoth(this, other) ==
  (this.nrows # other.nrows) /\ (this.ncols # other.ncols)

\* the shape test of both elementwise primitives:
\* (nrows != other.nrows) || (ncols != other.ncols)
ShapesDiffer(this, other) ==
  (this.nrows # other.nrows) \/ (this.ncols # other.ncols)

\* the second argument the loop body hands to to_apply at (row, col); the
\* source reads it from *this, not from other
RightOperand(this, other, row, col) == Get(this, row, col)

\* the nested loops of elementwise_binary_apply from (row, col) on, writing
\* into the result matrix res
RECURSIVE ApplyFrom(_, _, _, _, _, _)
ApplyFrom(this, other, res, fn, row, col) ==
  IF row >= this.nrows THEN [m |-> res, err |-> NoError]
  ELSE IF col >= this.ncols THEN ApplyFrom(this, other, res, fn, row + 1, 0)
  ELSE IF AccessErr(this, row, col) # NoError
         THEN [m |-> res, err |-> AccessErr(this, row, col)]
  ELSE IF AccessErr(res, row, col) # NoError
         THEN [m |-> res, err |-> AccessErr(res, row, col)]
  ELSE ApplyFrom(this, other,
                 Put(res, row, col,
                     Apply(fn, Get(this, row, col),
                           RightOperand(this, other, row, col))),
                 fn, row, col + 1)

\* elementwise_binary_apply(other, to_apply): m is the returned matrix when
\* err is NoError
ElementwiseBinaryApply(this, other, fn) ==
  IF ShapesDiffer(this, other) THEN [m |-> MatrixDefault, err |-> ShapeMismatch]
  ELSE ApplyFrom(this, other, MatrixZeros(this.nrows, this.ncols), fn, 0, 0)

\* the nested loops of elementwise_binary_apply_inplace from (row, col) on
RECURSIVE ApplyInplaceFrom(_, _, _, _, _)
ApplyInplaceFrom(this, other, fn, row, col) ==
  IF row >= this.nrows THEN [m |-> this, err |-> NoError]
  ELSE IF col >= this.ncols THEN ApplyInplaceFrom(this, other, fn, row + 1, 0)
  ELSE IF AccessErr(this, row, col) # NoError
         THEN [m |-> this, err |-> AccessErr(this, row, col)]
  ELSE IF Overflows(fn, Get(this, row, col),
                    RightOperand(this, other, row, col))
         THEN [m |-> this, err |-> IntOverflow]
  ELSE ApplyInplaceFrom(Put(this, row, col,
                            Apply(fn, Get(this, row, col),
                                  RightOperand(this, other, row, col))),
                        other, fn, row, col + 1)

\* elementwise_binary_apply_inplace(other, to_apply): m is *this afterwards
ElementwiseBinaryApplyInplace(this, other, fn) ==
  IF ShapesDiffer(this, other) THEN [m |-> this, err |-> ShapeMismatch]
  ELSE ApplyInplaceFrom(this, other, fn, 0, 0)

\* --------------------------------------- row/column elementwise mutators
\* one iteration of the row loops: *(*this)(row1, col) += *(*this)(row2, col)
\* (-= for sub)
RowCombine(m, row1, row2, col, fn) ==
  Put(m, row1, col, Apply(fn, Get(m, row1, col), Get(m, row2, col)))

\* the iterations col, col + 1, ... of add_row_elementwise (fn = "add") and
\* of sub_row_elementwise (fn = "sub"); firstArg is the operand of the
\* compound assignment that is evaluated first
RECURSIVE RowElementwiseFrom(_, _, _, _, _, _)
RowElementwiseFrom(m, row1, row2, col, fn, firstArg) ==
  IF col >= m.ncols THEN [m |-> m, err |-> NoError]
  ELSE LET e == PairErr(m, row1, col, row2, col, firstArg)
       IN IF e # NoError THEN [m |-> m, err |-> e]
          ELSE RowElementwiseFrom(RowCombine(m, row1, row2, col, fn),
                                  row1, row2, col + 1, fn, firstArg)

\* add_row_elementwise(row1, row2)
AddRowElementwise(m, row1, row2, firstArg) ==
  RowElementwiseFrom(m, row1, row2, 0, "add", firstArg)

\* sub_row_elementwise(row1, row2)
SubRowElementwise(m, row1, row2, firstArg) ==
  RowElementwiseFrom(m, row1, row2, 0, "sub", firstArg)

\* one iteration of the column loops:
\* *(*this)(row, col1) += *(*this)(row, col2) (-= for sub)
ColCombine(m, col1, col2, row, fn) ==
  Put(m, row, col1, Apply(fn, Get(m, row, col1), Get(m, row, col2)))

\* the iterations row, row + 1, ... of add_col_elementwise (fn = "add") and
\* of sub_col_elementwise (fn = "sub")
RECURSIVE ColElementwiseFrom(_, _, _, _, _, _)
ColElementwiseFrom(m, col1, col2, row, fn, firstArg) ==
  IF row >= m.nrows THEN [m |-> m, err |-> NoError]
  ELSE LET e == PairErr(m, row, col1, row, col2, firstArg)
       IN IF e # NoError THEN [m |-> m, err |-> e]
          ELSE ColElementwiseFrom(ColCombine(m, col1, col2, row, fn),
                                  col1, col2, row + 1, fn, firstArg)

\* add_col_elementwise(col1, col2)
AddColElementwise(m, col1, col2, firstArg) ==
  ColElementwiseFrom(m, col1, col2, 0, "add", firstArg)

\* sub_col_elementwise(col1, col2)
SubColElementwise(m, col1, col2, firstArg) ==
  ColElementwiseFrom(m, col1, col2, 0, "sub", firstArg)

\* ------------------------------------------------------ scalar primitives
\* a variant of the loop body's call with the operands exchanged
ScalarCallSwapped(fn, elem, other) == Apply(fn, other, elem)

\* the loop body's call to_apply(*(*this)(row, col), other)
ScalarCall(fn, elem, other) == Apply(fn, elem, other)

\* the nested loops of scalar_binary_apply from (row, col) on, writing into
\* the result matrix res
RECURSIVE ScalarApplyFrom(_, _, _, _, _, _)
ScalarApplyFrom(this, other, res, fn, row, col) ==
  IF row >= this.nrows THEN [m |-> res, err |-> NoError]
  ELSE IF col >= this.ncols
         THEN ScalarApplyFrom(this, other, res, fn, row + 1, 0)
  ELSE IF AccessErr(this, row, col) # NoError
         THEN [m |-> res, err |-> AccessErr(this, row, col)]
  ELSE IF AccessErr(res, row, col) # NoError
         THEN [m |-> res, err |-> AccessErr(res, row, col)]
  ELSE ScalarApplyFrom(this, other,
                       Put(res, row, col,
                           ScalarCall(fn, Get(this, row, col), other)),
                       fn, row, col + 1)

\* scalar_binary_apply(other, to_apply): m is the returned matrix when err is
\* NoError
ScalarBinaryApply(this, other, fn) ==
  ScalarApplyFrom(this, other, MatrixZeros(this.nrows, this.ncols), fn, 0, 0)

\* the nested loops of scalar_binary_apply_inplace from (row, col) on
RECURSIVE ScalarApplyInplaceFrom(_, _, _, _, _)
ScalarApplyInplaceFrom(this, other, fn, row, col) ==
  IF row >= this.nrows THEN [m |-> this, err |-> NoError]
  ELSE IF col >= this.ncols
         THEN ScalarApplyInplaceFrom(this, other, fn, row + 1, 0)
  ELSE IF AccessErr(this, row, col) # NoError
         THEN [m |-> this, err |-> AccessErr(this, row, col)]
  ELSE ScalarApplyInplaceFrom(Put(this, row, col,
                                  ScalarCall(fn, Get(this, row, col), other)),
                              other, fn, row, col + 1)

\* scalar_binary_apply_inplace(other, to_apply): m is *this afterwards
ScalarBinaryApplyInplace(this, other, fn) ==
  ScalarApplyInplaceFrom(this, other, fn, 0, 0)

\* -------------------------------------------------------- boolean helpers
\* the conversion of a Scalar to bool in if (*(*this)(row, col))
Truthy(x) == x # 0

\* the nested loops of any() from (row, col) on: return true at the first
\* truthy element
RECURSIVE AnyFrom(_, _, _)
AnyFrom(m, row, col) ==
  IF row >= m.nrows THEN [ans |-> FALSE, err |-> NoError]
  ELSE IF col >= m.ncols THEN AnyFrom(m, row + 1, 0)
  ELSE IF AccessErr(m, row, col) # NoError
         THEN [ans |-> FALSE, err |-> AccessErr(m, row, col)]
  ELSE IF Truthy(Get(m, row, col)) THEN [ans |-> TRUE, err |-> NoError]
  ELSE AnyFrom(m, row, col + 1)

\* any() (Any is a name of the TLC module)
MatrixAny(m) == AnyFrom(m, 0, 0)

\* the nested loops of all() from (row, col) on, all_truthy being the flag
RECURSIVE AllFrom(_, _, _, _)
AllFrom(m, row, col, all_truthy) ==
  IF row >= m.nrows THEN [ans |-> all_truthy, err |-> NoError]
  ELSE IF col >= m.ncols THEN AllFrom(m, row + 1, 0, all_truthy)
  ELSE IF AccessErr(m, row, col) # NoError
         THEN [ans |-> FALSE, err |-> AccessErr(m, row, col)]
  ELSE AllFrom(m, row, col + 1,
               IF ~Truthy(Get(m, row, col)) THEN FALSE ELSE all_truthy)

\* a variant of all() copied from any() without inverting the test
AllAsAny(m) == AnyFrom(m, 0, 0)

\* all(): bool all_truthy = true; ... return all_truthy
MatrixAll(m) == AllFrom(m, 0, 0, TRUE)

\* ------------------------------------------------------------------ state
VARIABLES
  A,          \* the Matrix under test (*this)
  B,          \* the right-hand Matrix of the last elementwise call (other)
  R,          \* the Matrix the last non-mutating call returned
  buf,        \* the caller's std::vector handed to a buffer-taking constructor
  ctor,       \* which constructor built A
  elements,   \* the initializer list handed to the literal constructor
  data_index, \* the literal constructor's local data_index
  written,    \* the buffer indices the literal constructor has stored to
  pc,         \* "start", "ctor_loop", "ready", "failed" (constructor threw),
              \* "done" (one operation called), "undone" (then its inverse),
              \* "in_sub_row" (inside the first class definition's sub_row),
              \* "crashed" (the call stack is exhausted)
  op,         \* the operation called on A, with its arguments
  pre,        \* A as it was when the operation was called
  err,        \* the exception the last constructor or operation threw, or NoError
  ret,        \* the buffer index of the element operator() returned, or -1
  answer,     \* the bool the last call of any() or all() returned
  depth,      \* the number of nested calls of the running member function
  what        \* the argument what of the innermost call of sub_row

vars == <<A, B, R, buf, ctor, elements, data_index, written, pc, op, pre, err,
          ret, answer, depth, what>>

NoOp == [name |-> "none", a1 |-> 0, a2 |-> 0, val |-> 0, fn |-> "none"]
Op(name, a1, a2, val, fn) ==
  [name |-> name, a1 |-> a1, a2 |-> a2, val |-> val, fn |-> fn]

\* the right-hand matrices the driver passes to the elementwise primitives,
\* of every shape: one filled with a value the left-hand matrix may not hold,
\* and one packed over the caller vector {1, 2, ..., nrows * ncols}
Others ==
  {MatrixFill(nr, nc, MaxVal + 1) : nr \in RowArgs, nc \in ColArgs}
  \cup {MatrixVector(nr, nc, [i \in 1..(nr * nc) |-> i]) :
          nr \in RowArgs, nc \in ColArgs}

Init ==
  /\ A = MatrixDefault
  /\ B = MatrixDefault
  /\ R = MatrixDefault
  /\ buf = <<>>
  /\ ctor = "none"
  /\ elements = <<>>
  /\ data_index = 0
  /\ written = {}
  /\ pc = "start"
  /\ op = NoOp
  /\ pre = MatrixDefault
  /\ err = NoError
  /\ ret = -1
  /\ answer = FALSE
  /\ depth = 0
  /\ what = 0

\* ----------------------------------------------------- constructor actions
\* Matrix<Scalar> A{};
ConstructDefault ==
  /\ pc = "start"
  /\ A' = MatrixDefault
  /\ ctor' = "default"
  /\ pc' = "ready"
  /\ UNCHANGED <<B, R, buf, elements, data_index, written, op, pre, err, ret>>
  /\ UNCHANGED <<answer, depth, what>>

\* Matrix<Scalar> A{nrows, ncols};
ConstructZeros ==
  /\ pc = "start"
  /\ \E nr \in RowArgs, nc \in ColArgs :
     /\ A' = MatrixZeros(nr, nc)
     /\ ctor' = "zeros"
     /\ pc' = "ready"
     /\ UNCHANGED <<B, R, buf, elements, data_index, written, op, pre, err, ret>>
  /\ UNCHANGED <<answer, depth, what>>

\* Matrix<Scalar> A(nrows, ncols, element);
ConstructFill ==
  /\ pc = "start"
  /\ \E nr \in RowArgs, nc \in ColArgs, e \in FillVals :
     /\ A' = MatrixFill(nr, nc, e)
     /\ ctor' = "fill"
     /\ pc' = "ready"
     /\ UNCHANGED <<B, R, buf, elements, data_index, written, op, pre, err, ret>>
  /\ UNCHANGED <<answer, depth, what>>

\* Matrix<Scalar> A(nrows, ncols, v); for a caller vector v
ConstructVector ==
  /\ pc = "start"
  /\ \E nr \in RowArgs, nc \in ColArgs, v \in Buffers :
     /\ buf' = v
     /\ A' = MatrixVector(nr, nc, v)
     /\ ctor' = "vector"
     /\ pc' = "ready"
     /\ UNCHANGED <<B, R, elements, data_index, written, op, pre, err, ret>>
  /\ UNCHANGED <<answer, depth, what>>

\* Matrix<Scalar> A(nrows, ncols, row_stride, col_stride, v);
ConstructStrided ==
  /\ pc = "start"
  /\ \E nr \in RowArgs, nc \in ColArgs, rs \in StrideArgs, cs \in StrideArgs,
        v \in Buffers :
     /\ buf' = v
     /\ A' = MatrixStrided(nr, nc, rs, cs, v)
     /\ ctor' = "strided"
     /\ pc' = "ready"
     /\ UNCHANGED <<B, R, elements, data_index, written, op, pre, err, ret>>
  /\ UNCHANGED <<answer, depth, what>>

\* Matrix<Scalar> A{nrows, ncols, {...}}: the member initializers and
\* size_t data_index = 0
LiteralBegin ==
  /\ pc = "start"
  /\ \E nr \in RowArgs, nc \in ColArgs, es \in ElementLists :
     /\ A' = MatrixZeros(nr, nc)
     /\ ctor' = "literal"
     /\ elements' = es
     /\ data_index' = 0
     /\ pc' = "ctor_loop"
     /\ UNCHANGED <<B, R, buf, written, op, pre, err, ret>>
  /\ UNCHANGED <<answer, depth, what>>

\* a variant of the guard that is off by one: data_index > data.size()
ListTooLongOffByOne(m, index) == index > Len(m.data)

\* the guard of the loop body: data_index >= data.size()
ListTooLong(m, index) == index >= Len(m.data)

\* a variant of the store that fills the buffer from its end
StoreElementReversed(m, index, elem) ==
  [m EXCEPT !.data = [@ EXCEPT ![Len(m.data) - index] = elem]]

\* the loop body's store: this->data[data_index] = elem
StoreElement(m, index, elem) == [m EXCEPT !.data = [@ EXCEPT ![index + 1] = elem]]

\* one iteration of for (Scalar elem : elements); the range-for has consumed
\* data_index elements so far
LiteralStep ==
  /\ pc = "ctor_loop"
  /\ data_index < Len(elements)
  /\ IF ListTooLong(A, data_index)
       THEN /\ err' = TooMany
            /\ pc' = "failed"
            /\ UNCHANGED <<A, data_index, written>>
       ELSE /\ A' = StoreElement(A, data_index, elements[data_index + 1])
            /\ written' = written \cup {data_index}
            /\ data_index' = data_index + 1
            /\ UNCHANGED <<err, pc>>
  /\ UNCHANGED <<B, R, buf, ctor, elements, op, pre, ret>>
  /\ UNCHANGED <<answer, depth, what>>

\* after the loop: if (data_index != data.size()) throw
LiteralEnd ==
  /\ pc = "ctor_loop"
  /\ data_index >= Len(elements)
  /\ IF data_index # Len(A.data)
       THEN err' = TooFew /\ pc' = "failed"
       ELSE err' = err /\ pc' = "ready"
  /\ UNCHANGED <<A, B, R, buf, ctor, elements, data_index, written, op, pre, ret>>
  /\ UNCHANGED <<answer, depth, what>>

\* ------------------------------------------------------ operation actions
\* Scalar x = *A(row, col);
Access ==
  /\ pc = "ready"
  /\ \E row \in RowArgs, col \in ColArgs :
     /\ pc' = "done"
     /\ op' = Op("access", row, col, 0, "none")
     /\ pre' = A
     /\ UNCHANGED <<ctor, elements, data_index, written>>
     /\ err' = AccessErr(A, row, col)
     /\ ret' = IF AccessErr(A, row, col) = NoError
                 THEN DataPosition(A, row, col) ELSE -1
     /\ UNCHANGED <<A, B, R, buf>>
  /\ UNCHANGED <<answer, depth, what>>

\* *A(row, col) = v;
AccessWrite ==
  /\ pc = "ready"
  /\ \E row \in RowArgs, col \in ColArgs, v \in Vals :
     /\ pc' = "done"
     /\ op' = Op("write", row, col, v, "none")
     /\ pre' = A
     /\ UNCHANGED <<ctor, elements, data_index, written>>
     /\ err' = AccessErr(A, row, col)
     /\ IF AccessErr(A, row, col) = NoError
          THEN A' = Put(A, row, col, v) /\ ret' = DataPosition(A, row, col)
          ELSE A' = A /\ ret' = -1
     /\ UNCHANGED <<B, R, buf>>
  /\ UNCHANGED <<answer, depth, what>>

\* the caller stores to its own vector: v[i] = x;
CallerWrite ==
  /\ pc = "ready"
  /\ \E i \in 0..(MaxBuf - 1), x \in Vals :
     /\ ctor \in {"vector", "strided"}
     /\ i < Len(buf)
     /\ pc' = "done"
     /\ op' = Op("caller_write", i, 0, x, "none")
     /\ pre' = A
     /\ UNCHANGED <<ctor, elements, data_index, written>>
     /\ buf' = [buf EXCEPT ![i + 1] = x]
     /\ UNCHANGED <<A, B, R, err, ret>>
  /\ UNCHANGED <<answer, depth, what>>

\* A.swap_row(row1, row2);
CallSwapRow ==
  /\ pc = "ready"
  /\ \E row1 \in RowArgs, row2 \in RowArgs, firstArg \in {1, 2} :
     /\ pc' = "done"
     /\ op' = Op("swap_row", row1, row2, 0, "none")
     /\ pre' = A
     /\ UNCHANGED <<ctor, elements, data_index, written>>
     /\ A' = SwapRow(A, row1, row2, firstArg).m
     /\ err' = SwapRow(A, row1, row2, firstArg).err
     /\ UNCHANGED <<B, R, buf, ret>>
  /\ UNCHANGED <<answer, depth, what>>

\* A.swap_col(col1, col2);
CallSwapCol ==
  /\ pc = "ready"
  /\ \E col1 \in ColArgs, col2 \in ColArgs, firstArg \in {1, 2} :
     /\ pc' = "done"
     /\ op' = Op("swap_col", col1, col2, 0, "none")
     /\ pre' = A
     /\ UNCHANGED <<ctor, elements, data_index, written>>
     /\ A' = SwapCol(A, col1, col2, firstArg).m
     /\ err' = SwapCol(A, col1, col2, firstArg).err
     /\ UNCHANGED <<B, R, buf, ret>>
  /\ UNCHANGED <<answer, depth, what>>

\* R = A.elementwise_binary_apply(B, fn);  (A + B, A - B, A * B)
CallElementwiseBinaryApply ==
  /\ pc = "ready"
  /\ \E other \in Others, fn \in Fns :
     /\ pc' = "done"
     /\ op' = Op("elementwise_binary_apply", 0, 0, 0, fn)
     /\ pre' = A
     /\ UNCHANGED <<ctor, elements, data_index, written>>
     /\ B' = other
     /\ err' = ElementwiseBinaryApply(A, other, fn).err
     /\ R' = IF ElementwiseBinaryApply(A, other, fn).err = NoError
               THEN ElementwiseBinaryApply(A, other, fn).m ELSE MatrixDefault
     /\ UNCHANGED <<A, buf, ret>>
  /\ UNCHANGED <<answer, depth, what>>

\* A.elementwise_binary_apply_inplace(B, fn);  (A += B, A -= B, A *= B); the
\* driver makes no call whose products overflow int
CallElementwiseBinaryApplyInplace ==
  /\ pc = "ready"
  /\ \E other \in Others, fn \in Fns :
     /\ pc' = "done"
     /\ op' = Op("elementwise_binary_apply_inplace", 0, 0, 0, fn)
     /\ pre' = A
     /\ UNCHANGED <<ctor, elements, data_index, written>>
     /\ B' = other
     /\ ElementwiseBinaryApplyInplace(A, other, fn).err # IntOverflow
     /\ A' = ElementwiseBinaryApplyInplace(A, other, fn).m
     /\ err' = ElementwiseBinaryApplyInplace(A, other, fn).err
     /\ UNCHANGED <<R, buf, ret>>
  /\ UNCHANGED <<answer, depth, what>>

\* A.swap_row(row1, row2); a second time, with the arguments of the first
\* call
CallSwapRowAgain ==
  /\ pc = "done"
  /\ op.name = "swap_row"
  /\ err = NoError
  /\ \E firstArg \in {1, 2} :
     /\ A' = SwapRow(A, op.a1, op.a2, firstArg).m
     /\ err' = SwapRow(A, op.a1, op.a2, firstArg).err
  /\ pc' = "undone"
  /\ UNCHANGED <<B, R, buf, ctor, elements, data_index, written, op, pre, ret>>
  /\ UNCHANGED <<answer, depth, what>>

\* A.swap_col(col1, col2); a second time, with the arguments of the first
\* call
CallSwapColAgain ==
  /\ pc = "done"
  /\ op.name = "swap_col"
  /\ err = NoError
  /\ \E firstArg \in {1, 2} :
     /\ A' = SwapCol(A, op.a1, op.a2, firstArg).m
     /\ err' = SwapCol(A, op.a1, op.a2, firstArg).err
  /\ pc' = "undone"
  /\ UNCHANGED <<B, R, buf, ctor, elements, data_index, written, op, pre, ret>>
  /\ UNCHANGED <<answer, depth, what>>

\* A.mult_row_scalar(row, by);
CallMultRowScalar ==
  /\ pc = "ready"
  /\ \E i \in RowArgs, k \in ScalarArgs :
     /\ op' = Op("mult_row_scalar", i, 0, k, "none")
     /\ A' = MultRowScalar(A, i, k).m
     /\ err' = MultRowScalar(A, i, k).err
  /\ pc' = "done"
  /\ pre' = A
  /\ UNCHANGED <<B, R, buf, ctor, elements, data_index, written, ret>>
  /\ UNCHANGED <<answer, depth, what>>

\* A.mult_col_scalar(column, by);
CallMultColScalar ==
  /\ pc = "ready"
  /\ \E i \in ColArgs, k \in ScalarArgs :
     /\ op' = Op("mult_col_scalar", i, 0, k, "none")
     /\ A' = MultColScalar(A, i, k).m
     /\ err' = MultColScalar(A, i, k).err
  /\ pc' = "done"
  /\ pre' = A
  /\ UNCHANGED <<B, R, buf, ctor, elements, data_index, written, ret>>
  /\ UNCHANGED <<answer, depth, what>>

\* A.div_row_scalar(row, by); with by # 0 (1 / 0 is undefined on int)
CallDivRowScalar ==
  /\ pc = "ready"
  /\ \E i \in RowArgs, k \in ScalarArgs :
     /\ k # 0
     /\ op' = Op("div_row_scalar", i, 0, k, "none")
     /\ A' = DivRowScalar(A, i, k).m
     /\ err' = DivRowScalar(A, i, k).err
  /\ pc' = "done"
  /\ pre' = A
  /\ UNCHANGED <<B, R, buf, ctor, elements, data_index, written, ret>>
  /\ UNCHANGED <<answer, depth, what>>

\* A.div_col_scalar(column, by); with by # 0 (1 / 0 is undefined on int)
CallDivColScalar ==
  /\ pc = "ready"
  /\ \E i \in ColArgs, k \in ScalarArgs :
     /\ k # 0
     /\ op' = Op("div_col_scalar", i, 0, k, "none")
     /\ A' = DivColScalar(A, i, k).m
     /\ err' = DivColScalar(A, i, k).err
  /\ pc' = "done"
  /\ pre' = A
  /\ UNCHANGED <<B, R, buf, ctor, elements, data_index, written, ret>>
  /\ UNCHANGED <<answer, depth, what>>

\* A.add_row_scalar(row, what);
CallAddRowScalar ==
  /\ pc = "ready"
  /\ \E i \in RowArgs, k \in ScalarArgs :
     /\ op' = Op("add_row_scalar", i, 0, k, "none")
     /\ A' = AddRowScalar(A, i, k).m
     /\ err' = AddRowScalar(A, i, k).err
  /\ pc' = "done"
  /\ pre' = A
  /\ UNCHANGED <<B, R, buf, ctor, elements, data_index, written, ret>>
  /\ UNCHANGED <<answer, depth, what>>

\* A.add_col_scalar(column, what);
CallAddColScalar ==
  /\ pc = "ready"
  /\ \E i \in ColArgs, k \in ScalarArgs :
     /\ op' = Op("add_col_scalar", i, 0, k, "none")
     /\ A' = AddColScalar(A, i, k).m
     /\ err' = AddColScalar(A, i, k).err
  /\ pc' = "done"
  /\ pre' = A
  /\ UNCHANGED <<B, R, buf, ctor, elements, data_index, written, ret>>
  /\ UNCHANGED <<answer, depth, what>>

\* A.sub_row_scalar(row, what);
CallSubRowScalar ==
  /\ pc = "ready"
  /\ \E i \in RowArgs, k \in ScalarArgs :
     /\ op' = Op("sub_row_scalar", i, 0, k, "none")
     /\ A' = SubRowScalar(A, i, k).m
     /\ err' = SubRowScalar(A, i, k).err
  /\ pc' = "done"
  /\ pre' = A
  /\ UNCHANGED <<B, R, buf, ctor, elements, data_index, written, ret>>
  /\ UNCHANGED <<answer, depth, what>>

\* A.sub_col_scalar(column, what);
CallSubColScalar ==
  /\ pc = "ready"
  /\ \E i \in ColArgs, k \in ScalarArgs :
     /\ op' = Op("sub_col_scalar", i, 0, k, "none")
     /\ A' = SubColScalar(A, i, k).m
     /\ err' = SubColScalar(A, i, k).err
  /\ pc' = "done"
  /\ pre' = A
  /\ UNCHANGED <<B, R, buf, ctor, elements, data_index, written, ret>>
  /\ UNCHANGED <<answer, depth, what>>

\* A.mult_row_scalar(row, by); after A.div_row_scalar(row, by);
CallMultRowAfterDiv ==
  /\ pc = "done"
  /\ op.name = "div_row_scalar"
  /\ err = NoError
  /\ A' = MultRowScalar(A, op.a1, op.val).m
  /\ err' = MultRowScalar(A, op.a1, op.val).err
  /\ pc' = "undone"
  /\ UNCHANGED <<B, R, buf, ctor, elements, data_index, written, op, pre, ret>>
  /\ UNCHANGED <<answer, depth, what>>

\* A.mult_col_scalar(column, by); after A.div_col_scalar(column, by);
CallMultColAfterDiv ==
  /\ pc = "done"
  /\ op.name = "div_col_scalar"
  /\ err = NoError
  /\ A' = MultColScalar(A, op.a1, op.val).m
  /\ err' = MultColScalar(A, op.a1, op.val).err
  /\ pc' = "undone"
  /\ UNCHANGED <<B, R, buf, ctor, elements, data_index, written, op, pre, ret>>
  /\ UNCHANGED <<answer, depth, what>>

\* A.sub_row_scalar(row, what); after A.add_row_scalar(row, what);
CallSubRowAfterAdd ==
  /\ pc = "done"
  /\ op.name = "add_row_scalar"
  /\ err = NoError
  /\ A' = SubRowScalar(A, op.a1, op.val).m
  /\ err' = SubRowScalar(A, op.a1, op.val).err
  /\ pc' = "undone"
  /\ UNCHANGED <<B, R, buf, ctor, elements, data_index, written, op, pre, ret>>
  /\ UNCHANGED <<answer, depth, what>>

\* A.sub_col_scalar(column, what); after A.add_col_scalar(column, what);
CallSubColAfterAdd ==
  /\ pc = "done"
  /\ op.name = "add_col_scalar"
  /\ err = NoError
  /\ A' = SubColScalar(A, op.a1, op.val).m
  /\ err' = SubColScalar(A, op.a1, op.val).err
  /\ pc' = "undone"
  /\ UNCHANGED <<B, R, buf, ctor, elements, data_index, written, op, pre, ret>>
  /\ UNCHANGED <<answer, depth, what>>

\* R = A.transpose();
CallTranspose ==
  /\ pc = "ready"
  /\ op' = Op("transpose", 0, 0, 0, "none")
  /\ R' = Transpose(A)
  /\ pc' = "done"
  /\ pre' = A
  /\ UNCHANGED <<A, B, buf, ctor, elements, data_index, written, err, ret>>
  /\ UNCHANGED <<answer, depth, what>>

\* R = R.transpose(); the transpose of the returned matrix
CallTransposeAgain ==
  /\ pc = "done"
  /\ op.name = "transpose"
  /\ R' = Transpose(R)
  /\ pc' = "undone"
  /\ UNCHANGED <<A, B, buf, ctor, elements, data_index, written, op, pre, err, ret>>
  /\ UNCHANGED <<answer, depth, what>>

\* R = A.scalar_binary_apply(other, fn);  (A + s, A - s, A * s)
CallScalarBinaryApply ==
  /\ pc = "ready"
  /\ \E other \in ScalarArgs, fn \in Fns :
     /\ op' = Op("scalar_binary_apply", 0, 0, other, fn)
     /\ err' = ScalarBinaryApply(A, other, fn).err
     /\ R' = IF ScalarBinaryApply(A, other, fn).err = NoError
               THEN ScalarBinaryApply(A, other, fn).m ELSE MatrixDefault
  /\ pc' = "done"
  /\ pre' = A
  /\ UNCHANGED <<A, B, buf, ctor, elements, data_index, written, ret>>
  /\ UNCHANGED <<answer, depth, what>>

\* A.scalar_binary_apply_inplace(other, fn);  (A += s, A -= s, A *= s)
CallScalarBinaryApplyInplace ==
  /\ pc = "ready"
  /\ \E other \in ScalarArgs, fn \in Fns :
     /\ op' = Op("scalar_binary_apply_inplace", 0, 0, other, fn)
     /\ A' = ScalarBinaryApplyInplace(A, other, fn).m
     /\ err' = ScalarBinaryApplyInplace(A, other, fn).err
  /\ pc' = "done"
  /\ pre' = A
  /\ UNCHANGED <<B, R, buf, ctor, elements, data_index, written, ret>>
  /\ UNCHANGED <<answer, depth, what>>

\* answer = A.any();
CallAny ==
  /\ pc = "ready"
  /\ op' = Op("any", 0, 0, 0, "none")
  /\ answer' = MatrixAny(A).ans
  /\ err' = MatrixAny(A).err
  /\ pc' = "done"
  /\ pre' = A
  /\ UNCHANGED <<A, B, R, buf, ctor, elements, data_index, written, ret>>
  /\ UNCHANGED <<depth, what>>

\* answer = A.all();
CallAll ==
  /\ pc = "ready"
  /\ op' = Op("all", 0, 0, 0, "none")
  /\ answer' = MatrixAll(A).ans
  /\ err' = MatrixAll(A).err
  /\ pc' = "done"
  /\ pre' = A
  /\ UNCHANGED <<A, B, R, buf, ctor, elements, data_index, written, ret>>
  /\ UNCHANGED <<depth, what>>

\* A.add_row_elementwise(row1, row2);
CallAddRowElementwise ==
  /\ pc = "ready"
  /\ \E i \in RowArgs, j \in RowArgs, firstArg \in {1, 2} :
     /\ op' = Op("add_row_elementwise", i, j, 0, "none")
     /\ A' = AddRowElementwise(A, i, j, firstArg).m
     /\ err' = AddRowElementwise(A, i, j, firstArg).err
  /\ pc' = "done"
  /\ pre' = A
  /\ UNCHANGED <<B, R, buf, ctor, elements, data_index, written, ret>>
  /\ UNCHANGED <<answer, depth, what>>

\* A.add_col_elementwise(col1, col2);
CallAddColElementwise ==
  /\ pc = "ready"
  /\ \E i \in ColArgs, j \in ColArgs, firstArg \in {1, 2} :
     /\ op' = Op("add_col_elementwise", i, j, 0, "none")
     /\ A' = AddColElementwise(A, i, j, firstArg).m
     /\ err' = AddColElementwise(A, i, j, firstArg).err
  /\ pc' = "done"
  /\ pre' = A
  /\ UNCHANGED <<B, R, buf, ctor, elements, data_index, written, ret>>
  /\ UNCHANGED <<answer, depth, what>>

\* A.sub_row_elementwise(row1, row2);
CallSubRowElementwise ==
  /\ pc = "ready"
  /\ \E i \in RowArgs, j \in RowArgs, firstArg \in {1, 2} :
     /\ op' = Op("sub_row_elementwise", i, j, 0, "none")
     /\ A' = SubRowElementwise(A, i, j, firstArg).m
     /\ err' = SubRowElementwise(A, i, j, firstArg).err
  /\ pc' = "done"
  /\ pre' = A
  /\ UNCHANGED <<B, R, buf, ctor, elements, data_index, written, ret>>
  /\ UNCHANGED <<answer, depth, what>>

\* A.sub_col_elementwise(col1, col2);
CallSubColElementwise ==
  /\ pc = "ready"
  /\ \E i \in ColArgs, j \in ColArgs, firstArg \in {1, 2} :
     /\ op' = Op("sub_col_elementwise", i, j, 0, "none")
     /\ A' = SubColElementwise(A, i, j, firstArg).m
     /\ err' = SubColElementwise(A, i, j, firstArg).err
  /\ pc' = "done"
  /\ pre' = A
  /\ UNCHANGED <<B, R, buf, ctor, elements, data_index, written, ret>>
  /\ UNCHANGED <<answer, depth, what>>

\* first class definition: A.sub_row(row, k); control enters sub_row, whose
\* body is the call this->sub_row(row, -what)
CallSubRowOld ==
  /\ pc = "ready"
  /\ \E row \in RowArgs, k \in ScalarArgs :
     /\ op' = Op("sub_row", row, 0, k, "none")
     /\ what' = k
  /\ depth' = 1
  /\ pc' = "in_sub_row"
  /\ pre' = A
  /\ UNCHANGED <<A, B, R, buf, ctor, elements, data_index, written, err, ret>>
  /\ UNCHANGED answer

\* first class definition: A.sub_col(column, k); its body calls
\* this->sub_row(column, -what), so control enters sub_row one call deeper
CallSubColOld ==
  /\ pc = "ready"
  /\ \E column \in ColArgs, k \in ScalarArgs :
     /\ op' = Op("sub_col", column, 0, k, "none")
     /\ what' = -k
  /\ depth' = 2
  /\ pc' = "in_sub_row"
  /\ pre' = A
  /\ UNCHANGED <<A, B, R, buf, ctor, elements, data_index, written, err, ret>>
  /\ UNCHANGED answer

\* sub_row's body: the call this->sub_row(row, -what) pushes another frame
SubRowRecurse ==
  /\ pc = "in_sub_row"
  /\ depth < MaxDepth
  /\ depth' = depth + 1
  /\ what' = -what
  /\ UNCHANGED <<A, B, R, buf, ctor, elements, data_index, written, pc, op, pre,
                 err, ret, answer>>

\* sub_row's body in a build that compiles the call in tail position to a
\* jump: the same frame runs again with -what
SubRowTailCall ==
  /\ pc = "in_sub_row"
  /\ what' = -what
  /\ UNCHANGED <<A, B, R, buf, ctor, elements, data_index, written, pc, op, pre,
                 err, ret, answer, depth>>

\* sub_row's body when there is no room for another frame: the process ends
\* with a stack overflow
SubRowStackOverflow ==
  /\ pc = "in_sub_row"
  /\ depth >= MaxDepth
  /\ pc' = "crashed"
  /\ UNCHANGED <<A, B, R, buf, ctor, elements, data_index, written, op, pre,
                 err, ret, answer, depth, what>>

Next ==
  \/ ConstructDefault
  \/ ConstructZeros
  \/ ConstructFill
  \/ ConstructVector
  \/ ConstructStrided
  \/ LiteralBegin
  \/ LiteralStep
  \/ LiteralEnd
  \/ Access
  \/ AccessWrite
  \/ CallerWrite
  \/ CallSwapRow
  \/ CallSwapCol
  \/ CallElementwiseBinaryApply
  \/ CallElementwiseBinaryApplyInplace
  \/ CallSwapRowAgain
  \/ CallSwapColAgain
  \/ CallMultRowScalar
  \/ CallMultColScalar
  \/ CallDivRowScalar
  \/ CallDivColScalar
  \/ CallAddRowScalar
  \/ CallAddColScalar
  \/ CallSubRowScalar
  \/ CallSubColScalar
  \/ CallMultRowAfterDiv
  \/ CallMultColAfterDiv
  \/ CallSubRowAfterAdd
  \/ CallSubColAfterAdd
  \/ CallTranspose
  \/ CallTransposeAgain
  \/ CallScalarBinaryApply
  \/ CallScalarBinaryApplyInplace
  \/ CallAny
  \/ CallAll
  \/ CallAddRowElementwise
  \/ CallAddColElementwise
  \/ CallSubRowElementwise
  \/ CallSubColElementwise
  \/ CallSubRowOld
  \/ CallSubColOld
  \/ SubRowRecurse
  \/ SubRowTailCall
  \/ SubRowStackOverflow

Spec == Init /\ [][Next]_vars

\* The driver restricted to one family of operations.  Every operation ends
\* the run, so the behaviours of each restricted driver are exactly the
\* behaviours of Spec that end in an operation of that family.

\* construction, then element access by the Matrix or by the caller
NextAccess ==
  \/ ConstructDefault
  \/ ConstructZeros
  \/ ConstructFill
  \/ ConstructVector
  \/ ConstructStrided
  \/ LiteralBegin
  \/ LiteralStep
  \/ LiteralEnd
  \/ Access
  \/ AccessWrite
  \/ CallerWrite

SpecAccess == Init /\ [][NextAccess]_vars

\* construction, then a row or column swap, then the same swap again
NextSwap ==
  \/ ConstructDefault
  \/ ConstructZeros
  \/ ConstructFill
  \/ ConstructVector
  \/ ConstructStrided
  \/ LiteralBegin
  \/ LiteralStep
  \/ LiteralEnd
  \/ CallSwapRow
  \/ CallSwapCol
  \/ CallSwapRowAgain
  \/ CallSwapColAgain

SpecSwap == Init /\ [][NextSwap]_vars

\* construction with row-major strides (over a buffer of any length), then a
\* Matrix-Matrix elementwise primitive.  Strides that map several
\* coordinates to one element are left to Spec: there the in-place primitive
\* squares one element once per coordinate.
NextElementwise ==
  \/ ConstructDefault
  \/ ConstructZeros
  \/ ConstructFill
  \/ ConstructVector
  \/ LiteralBegin
  \/ LiteralStep
  \/ LiteralEnd
  \/ CallElementwiseBinaryApply
  \/ CallElementwiseBinaryApplyInplace

SpecElementwise == Init /\ [][NextElementwise]_vars

\* construction, then a row/column scalar mutator, then the mutator that is
\* meant to undo it
NextScalar ==
  \/ ConstructDefault
  \/ ConstructZeros
  \/ ConstructFill
  \/ ConstructVector
  \/ ConstructStrided
  \/ LiteralBegin
  \/ LiteralStep
  \/ LiteralEnd
  \/ CallMultRowScalar
  \/ CallMultColScalar
  \/ CallDivRowScalar
  \/ CallDivColScalar
  \/ CallAddRowScalar
  \/ CallAddColScalar
  \/ CallSubRowScalar
  \/ CallSubColScalar
  \/ CallMultRowAfterDiv
  \/ CallMultColAfterDiv
  \/ CallSubRowAfterAdd
  \/ CallSubColAfterAdd

SpecScalar == Init /\ [][NextScalar]_vars

\* construction, then transpose(), then the transpose of the result
NextTranspose ==
  \/ ConstructDefault
  \/ ConstructZeros
  \/ ConstructFill
  \/ ConstructVector
  \/ ConstructStrided
  \/ LiteralBegin
  \/ LiteralStep
  \/ LiteralEnd
  \/ CallTranspose
  \/ CallTransposeAgain

SpecTranspose == Init /\ [][NextTranspose]_vars

\* construction, then one of the two scalar primitives
NextScalarApply ==
  \/ ConstructDefault
  \/ ConstructZeros
  \/ ConstructFill
  \/ ConstructVector
  \/ ConstructStrided
  \/ LiteralBegin
  \/ LiteralStep
  \/ LiteralEnd
  \/ CallScalarBinaryApply
  \/ CallScalarBinaryApplyInplace

SpecScalarApply == Init /\ [][NextScalarApply]_vars

\* construction, then any() or all()
NextBool ==
  \/ ConstructDefault
  \/ ConstructZeros
  \/ ConstructFill
  \/ ConstructVector
  \/ ConstructStrided
  \/ LiteralBegin
  \/ LiteralStep
  \/ LiteralEnd
  \/ CallAny
  \/ CallAll

SpecBool == Init /\ [][NextBool]_vars

\* construction by any constructor, then a write through the accessor, a
\* row/column mutator or an in-place primitive, then the call that follows it
NextMutate ==
  \/ ConstructDefault
  \/ ConstructZeros
  \/ ConstructFill
  \/ ConstructVector
  \/ ConstructStrided
  \/ LiteralBegin
  \/ LiteralStep
  \/ LiteralEnd
  \/ AccessWrite
  \/ CallSwapRow
  \/ CallSwapCol
  \/ CallSwapRowAgain
  \/ CallSwapColAgain
  \/ CallMultRowScalar
  \/ CallMultColScalar
  \/ CallDivRowScalar
  \/ CallDivColScalar
  \/ CallAddRowScalar
  \/ CallAddColScalar
  \/ CallSubRowScalar
  \/ CallSubColScalar
  \/ CallMultRowAfterDiv
  \/ CallMultColAfterDiv
  \/ CallSubRowAfterAdd
  \/ CallSubColAfterAdd
  \/ CallAddRowElementwise
  \/ CallAddColElementwise
  \/ CallSubRowElementwise
  \/ CallSubColElementwise
  \/ CallScalarBinaryApplyInplace
  \/ CallElementwiseBinaryApplyInplace

SpecMutate == Init /\ [][NextMutate]_vars

\* the first class definition: construction (its constructors and accessor
\* have the text of the second definition's), then sub_row or sub_col
NextOldSub ==
  \/ ConstructDefault
  \/ ConstructZeros
  \/ ConstructFill
  \/ LiteralBegin
  \/ LiteralStep
  \/ LiteralEnd
  \/ CallSubRowOld
  \/ CallSubColOld
  \/ SubRowRecurse
  \/ SubRowTailCall
  \/ SubRowStackOverflow

SpecOldSub == Init /\ [][NextOldSub]_vars

\* ================================================================ claims
\* a matrix laid out as the dimension constructors lay it out
Packed(m) ==
  /\ m.row_stride = m.ncols
  /\ m.col_stride = 1
  /\ m.matrix_size = m.nrows * m.ncols
  /\ Len(m.data) = m.nrows * m.ncols

\* the last step was a call of operator() (a read or a write through it)
Accessed == pc = "done" /\ op.name \in {"access", "write"}

\* the linear offset of the accessed coordinate, spelled out
AccessedOffset == op.a1 * pre.row_stride + op.a2 * pre.col_stride

\* C1: for a logically in-range (row, col) of any Matrix, operator() throws
\* the physical-bounds error whenever row*row_stride + col*col_stride is
\* >= matrix_size or >= the buffer length; a successful access returns an
\* element inside the buffer; the buffer-taking constructors never throw, so
\* an inconsistent declaration is reported by the access only.
C1_PhysicalBoundsAtAccess ==
  /\ (Accessed /\ op.a1 < pre.nrows /\ op.a2 < pre.ncols
        /\ (AccessedOffset >= pre.matrix_size \/ AccessedOffset >= Len(pre.data)))
     => (err = BeyondData /\ ret = -1 /\ A = pre)
  /\ (Accessed /\ err = NoError)
     => (ret = AccessedOffset /\ ret >= 0 /\ ret < Len(pre.data))
  /\ (ctor \in {"vector", "strided"} /\ pc = "ready") => err = NoError

\* C1 witness: a strided Matrix whose buffer is shorter than its declared
\* size was constructed, and an in-range access that only the buffer-length
\* test can reject has thrown the physical-bounds error
C1_Witness ==
  /\ Accessed /\ ctor = "strided"
  /\ op.a1 < pre.nrows /\ op.a2 < pre.ncols
  /\ AccessedOffset < pre.matrix_size
  /\ AccessedOffset >= Len(pre.data)
  /\ err = BeyondData

\* C2: operator()(row, col) throws "Invalid index" whenever row >= nrows or
\* col >= ncols, whatever the strides and the buffer length are: never the
\* physical-bounds error, never an element, and the Matrix is untouched.
C2_LogicalBoundsFirst ==
  (Accessed /\ (op.a1 >= pre.nrows \/ op.a2 >= pre.ncols))
  => (err = InvalidIndex /\ ret = -1 /\ A = pre)

\* C2 witness: a logically out-of-range access whose offset is also outside
\* the buffer has thrown the logical-bounds error
C2_Witness ==
  /\ Accessed /\ ctor = "strided"
  /\ (op.a1 >= pre.nrows \/ op.a2 >= pre.ncols)
  /\ pre.nrows > 0 /\ pre.ncols > 0
  /\ AccessedOffset >= Len(pre.data)
  /\ err = InvalidIndex

\* C3: for A and B of equal shape, the matrix R returned by
\* A.elementwise_binary_apply(B, fn) has R(row, col) = fn(A(row, col),
\* B(row, col)) at every valid coordinate (so A + B, A - B, A * B depend on
\* B), and A is left unchanged.
C3_ApplyPairsWithOther ==
  (pc = "done" /\ op.name = "elementwise_binary_apply" /\ err = NoError)
  => /\ A = pre
     /\ \A row \in 0..(pre.nrows - 1), col \in 0..(pre.ncols - 1) :
          /\ AccessErr(R, row, col) = NoError
          /\ Get(R, row, col) =
               Apply(op.fn, Get(pre, row, col), Get(B, row, col))

\* C4: for A and B of equal shape, after
\* A.elementwise_binary_apply_inplace(B, fn) (A += B, A -= B, A *= B) every
\* element is A'(row, col) = fn(A(row, col), B(row, col)), A being the value
\* before the call.
C4_InplacePairsWithOther ==
  (pc = "done" /\ op.name = "elementwise_binary_apply_inplace" /\ err = NoError)
  => \A row \in 0..(pre.nrows - 1), col \in 0..(pre.ncols - 1) :
       /\ AccessErr(A, row, col) = NoError
       /\ Get(A, row, col) =
            Apply(op.fn, Get(pre, row, col), Get(B, row, col))

\* the last step was a call of one of the two Matrix-Matrix primitives
ElementwiseCalled ==
  pc = "done" /\ op.name \in {"elementwise_binary_apply",
                             "elementwise_binary_apply_inplace"}

C6_BufferShared ==
  (ctor \in {"vector", "strided"} /\ pc \in {"ready", "done"})
  => \A row \in 0..(A.nrows - 1), col \in 0..(A.ncols - 1) :
       AccessErr(A, row, col) = NoError
       => Get(A, row, col) = buf[DataPosition(A, row, col) + 1]

\* C7: construction from (nrows, ncols) and a list of exactly nrows * ncols
\* elements yields a Matrix that reads the i-th supplied element (0-based)
\* at (i / ncols, i % ncols), for every i in 0 .. nrows * ncols - 1.
C7_LiteralRowMajor ==
  /\ (ctor = "literal" /\ pc = "ready")
     => /\ Len(elements) = A.nrows * A.ncols
        /\ \A i \in 0..(A.nrows * A.ncols - 1) :
             /\ AccessErr(A, i \div A.ncols, i % A.ncols) = NoError
             /\ Get(A, i \div A.ncols, i % A.ncols) = elements[i + 1]
  /\ (ctor = "literal" /\ pc = "done" /\ op.name = "access"
        /\ op.a1 < pre.nrows /\ op.a2 < pre.ncols)
     => /\ err = NoError
        /\ pre.data[ret + 1] = elements[op.a1 * pre.ncols + op.a2 + 1]

\* C7 witness: a 2 x 2 Matrix was built from a list whose second and third
\* elements differ, and its element (1, 0) has been read
C7_Witness ==
  /\ ctor = "literal" /\ pc = "done" /\ op.name = "access"
  /\ pre.nrows = 2 /\ pre.ncols = 2
  /\ Len(elements) = 4 /\ elements[2] # elements[3]
  /\ op.a1 = 1 /\ op.a2 = 0
  /\ err = NoError

\* C8: literal construction fails whenever the number of supplied elements
\* differs from nrows * ncols.  With more, "too many" is thrown on reaching
\* the first surplus element (exactly nrows * ncols elements consumed) and
\* nothing has been stored at or beyond index nrows * ncols; with fewer,
\* "too few" is thrown only after every supplied element has been consumed
\* and stored.  With exactly nrows * ncols the construction succeeds.
C8_LiteralCountMismatch ==
  LET size == A.nrows * A.ncols
  IN /\ (ctor = "literal")
        => /\ \A i \in written : i < size
           /\ Len(A.data) = size
     /\ (ctor = "literal" /\ pc = "ctor_loop") => err = NoError
     /\ (ctor = "literal" /\ pc # "ctor_loop" /\ Len(elements) > size)
        => (pc = "failed" /\ err = TooMany /\ data_index = size
            /\ written = 0..(size - 1))
     /\ (ctor = "literal" /\ pc # "ctor_loop" /\ Len(elements) < size)
        => (pc = "failed" /\ err = TooFew /\ data_index = Len(elements)
            /\ written = 0..(Len(elements) - 1))
     /\ (ctor = "literal" /\ pc # "ctor_loop" /\ Len(elements) = size)
        => pc \in {"ready", "done"}

\* C8 witness: a construction with at least two surplus elements has thrown
\* "too many" for a Matrix that holds at least one element
C8_Witness ==
  /\ ctor = "literal" /\ pc = "failed" /\ err = TooMany
  /\ A.nrows * A.ncols > 0
  /\ Len(elements) > A.nrows * A.ncols + 1

\* C9: for a Matrix built by Matrix(nrows, ncols), every access at a valid
\* (row, col) succeeds and reads the scalar zero.
C9_ZerosReadZero ==
  /\ (ctor = "zeros" /\ pc = "ready")
     => \A row \in 0..(A.nrows - 1), col \in 0..(A.ncols - 1) :
          AccessErr(A, row, col) = NoError /\ Get(A, row, col) = 0
  /\ (ctor = "zeros" /\ pc = "done" /\ op.name = "access"
        /\ op.a1 < pre.nrows /\ op.a2 < pre.ncols)
     => (err = NoError /\ ret >= 0 /\ ret < Len(pre.data)
         /\ pre.data[ret + 1] = 0)

\* C9 witness: the last element of a zero-constructed 3 x 2 Matrix was read
C9_Witness ==
  /\ ctor = "zeros" /\ pc = "done" /\ op.name = "access"
  /\ pre.nrows = 3 /\ pre.ncols = 2
  /\ op.a1 = 2 /\ op.a2 = 1
  /\ err = NoError

\* the element of the packed matrix m at (row, col), spelled out
At(m, row, col) == m.data[row * m.ncols + col + 1]

\* C10: on a packed Matrix, swap_row(r1, r2) with valid r1, r2 succeeds and
\* exchanges the two rows over their full width, every other row keeping its
\* elements; swap_col(c1, c2) with valid c1, c2 does the same for columns.
C10_SwapExchanges ==
  /\ (pc = "done" /\ op.name = "swap_row" /\ Packed(pre)
        /\ op.a1 < pre.nrows /\ op.a2 < pre.nrows)
     => /\ err = NoError
        /\ Packed(A) /\ A.nrows = pre.nrows /\ A.ncols = pre.ncols
        /\ \A row \in 0..(pre.nrows - 1), col \in 0..(pre.ncols - 1) :
             At(A, row, col) =
               IF row = op.a1 THEN At(pre, op.a2, col)
               ELSE IF row = op.a2 THEN At(pre, op.a1, col)
               ELSE At(pre, row, col)
  /\ (pc = "done" /\ op.name = "swap_col" /\ Packed(pre)
        /\ op.a1 < pre.ncols /\ op.a2 < pre.ncols)
     => /\ err = NoError
        /\ Packed(A) /\ A.nrows = pre.nrows /\ A.ncols = pre.ncols
        /\ \A row \in 0..(pre.nrows - 1), col \in 0..(pre.ncols - 1) :
             At(A, row, col) =
               IF col = op.a1 THEN At(pre, row, op.a2)
               ELSE IF col = op.a2 THEN At(pre, row, op.a1)
               ELSE At(pre, row, col)

\* C10 witness: two different rows of a packed three-row Matrix were swapped
\* while the third row held a non-zero element
C10_Witness ==
  /\ pc = "done" /\ op.name = "swap_row" /\ Packed(pre)
  /\ pre.nrows = 3 /\ pre.ncols >= 1
  /\ op.a1 = 0 /\ op.a2 = 1
  /\ At(pre, 0, 0) # At(pre, 1, 0)
  /\ At(pre, 2, 0) # 0
  /\ err = NoError

\* C11: swap_row is an involution: on a packed Matrix, swap_row(a, b)
\* followed by swap_row(a, b) with valid a, b (a = b included) succeeds both
\* times and leaves the Matrix equal to the original at every coordinate;
\* the same holds for swap_col with valid column indices.
C11_SwapInvolution ==
  /\ (pc = "undone" /\ op.name = "swap_row" /\ Packed(pre)
        /\ op.a1 < pre.nrows /\ op.a2 < pre.nrows)
     => /\ err = NoError
        /\ A.nrows = pre.nrows /\ A.ncols = pre.ncols
        /\ \A row \in 0..(pre.nrows - 1), col \in 0..(pre.ncols - 1) :
             At(A, row, col) = At(pre, row, col)
  /\ (pc = "undone" /\ op.name = "swap_col" /\ Packed(pre)
        /\ op.a1 < pre.ncols /\ op.a2 < pre.ncols)
     => /\ err = NoError
        /\ A.nrows = pre.nrows /\ A.ncols = pre.ncols
        /\ \A row \in 0..(pre.nrows - 1), col \in 0..(pre.ncols - 1) :
             At(A, row, col) = At(pre, row, col)

\* C11 witness: two rows of a packed 2 x 2 Matrix that differ in both
\* columns were swapped twice
C11_Witness ==
  /\ pc = "undone" /\ op.name = "swap_row" /\ Packed(pre)
  /\ pre.nrows = 2 /\ pre.ncols = 2
  /\ op.a1 = 0 /\ op.a2 = 1
  /\ At(pre, 0, 0) # At(pre, 1, 0)
  /\ At(pre, 0, 1) # At(pre, 1, 1)
  /\ err = NoError

\* C12: on a packed Matrix of int, mult_row_scalar(r, k) with valid r
\* succeeds and leaves every element of row r equal to its original value
\* times k and every other row unchanged; mult_col_scalar(c, k) with valid c
\* does the same for column c.
C12_MultScalesOneLine ==
  /\ (pc = "done" /\ op.name = "mult_row_scalar" /\ Packed(pre)
        /\ op.a1 < pre.nrows)
     => /\ err = NoError
        /\ Packed(A) /\ A.nrows = pre.nrows /\ A.ncols = pre.ncols
        /\ \A row \in 0..(pre.nrows - 1), col \in 0..(pre.ncols - 1) :
             At(A, row, col) =
               IF row = op.a1 THEN At(pre, row, col) * op.val
               ELSE At(pre, row, col)
  /\ (pc = "done" /\ op.name = "mult_col_scalar" /\ Packed(pre)
        /\ op.a1 < pre.ncols)
     => /\ err = NoError
        /\ Packed(A) /\ A.nrows = pre.nrows /\ A.ncols = pre.ncols
        /\ \A row \in 0..(pre.nrows - 1), col \in 0..(pre.ncols - 1) :
             At(A, row, col) =
               IF col = op.a1 THEN At(pre, row, col) * op.val
               ELSE At(pre, row, col)

\* C12 witness: column 1 of a packed Matrix with at least two rows and two
\* columns and no zero element was multiplied by 2
C12_Witness ==
  /\ pc = "done" /\ op.name = "mult_col_scalar" /\ Packed(pre)
  /\ pre.nrows >= 2 /\ pre.ncols = 2
  /\ op.a1 = 1 /\ op.val = 2
  /\ \A i \in 1..Len(pre.data) : pre.data[i] # 0
  /\ err = NoError

\* C13: on a packed Matrix of int, for a valid row r and a non-zero k that
\* divides every element of row r exactly, div_row_scalar(r, k) followed by
\* mult_row_scalar(r, k) leaves every element of row r at its original value;
\* likewise div_col_scalar followed by mult_col_scalar for a column.
C13_DivThenMultRestores ==
  /\ (pc = "undone" /\ op.name = "div_row_scalar" /\ Packed(pre)
        /\ op.a1 < pre.nrows /\ op.val # 0
        /\ \A col \in 0..(pre.ncols - 1) :
             At(pre, op.a1, col) % Abs(op.val) = 0)
     => /\ err = NoError
        /\ \A col \in 0..(pre.ncols - 1) :
             At(A, op.a1, col) = At(pre, op.a1, col)
  /\ (pc = "undone" /\ op.name = "div_col_scalar" /\ Packed(pre)
        /\ op.a1 < pre.ncols /\ op.val # 0
        /\ \A row \in 0..(pre.nrows - 1) :
             At(pre, row, op.a1) % Abs(op.val) = 0)
     => /\ err = NoError
        /\ \A row \in 0..(pre.nrows - 1) :
             At(A, row, op.a1) = At(pre, row, op.a1)

\* C14: on a packed Matrix of int, add_row_scalar(r, k) with valid r adds k
\* to every element of row r and changes no other row, sub_row_scalar(r, k)
\* subtracts k from every element of row r and changes no other row, and
\* add_row_scalar(r, k) followed by sub_row_scalar(r, k) restores the whole
\* matrix; the same holds for add_col_scalar / sub_col_scalar on a column.
C14_AddSubShiftOneLine ==
  /\ (pc = "done" /\ op.name \in {"add_row_scalar", "sub_row_scalar"}
        /\ Packed(pre) /\ op.a1 < pre.nrows)
     => /\ err = NoError
        /\ Packed(A) /\ A.nrows = pre.nrows /\ A.ncols = pre.ncols
        /\ \A row \in 0..(pre.nrows - 1), col \in 0..(pre.ncols - 1) :
             At(A, row, col) =
               IF row # op.a1 THEN At(pre, row, col)
               ELSE IF op.name = "add_row_scalar"
                      THEN At(pre, row, col) + op.val
               ELSE At(pre, row, col) - op.val
  /\ (pc = "done" /\ op.name \in {"add_col_scalar", "sub_col_scalar"}
        /\ Packed(pre) /\ op.a1 < pre.ncols)
     => /\ err = NoError
        /\ Packed(A) /\ A.nrows = pre.nrows /\ A.ncols = pre.ncols
        /\ \A row \in 0..(pre.nrows - 1), col \in 0..(pre.ncols - 1) :
             At(A, row, col) =
               IF col # op.a1 THEN At(pre, row, col)
               ELSE IF op.name = "add_col_scalar"
                      THEN At(pre, row, col) + op.val
               ELSE At(pre, row, col) - op.val
  /\ (pc = "undone" /\ op.name = "add_row_scalar" /\ Packed(pre)
        /\ op.a1 < pre.nrows)
     => err = NoError /\ A = pre
  /\ (pc = "undone" /\ op.name = "add_col_scalar" /\ Packed(pre)
        /\ op.a1 < pre.ncols)
     => err = NoError /\ A = pre

\* C14 witness: 2 was added to row 0 of a packed Matrix with at least two
\* rows and then subtracted again
C14_Witness ==
  /\ pc = "undone" /\ op.name = "add_row_scalar" /\ Packed(pre)
  /\ pre.nrows >= 2 /\ pre.ncols >= 1
  /\ op.a1 = 0 /\ op.val = 2
  /\ err = NoError

\* C15: for a packed nrows x ncols Matrix M, transpose() returns an
\* ncols x nrows Matrix T in which every access at a valid coordinate
\* succeeds and T(c, r) = M(r, c), M itself is unchanged, and the transpose
\* of T has the dimensions of M and is elementwise equal to M.
C15_TransposeMirrors ==
  /\ (pc = "done" /\ op.name = "transpose" /\ Packed(pre))
     => /\ A = pre
        /\ R.nrows = pre.ncols /\ R.ncols = pre.nrows
        /\ \A row \in 0..(pre.nrows - 1), col \in 0..(pre.ncols - 1) :
             /\ AccessErr(R, col, row) = NoError
             /\ Get(R, col, row) = At(pre, row, col)
  /\ (pc = "undone" /\ op.name = "transpose" /\ Packed(pre))
     => /\ A = pre
        /\ R.nrows = pre.nrows /\ R.ncols = pre.ncols
        /\ \A row \in 0..(pre.nrows - 1), col \in 0..(pre.ncols - 1) :
             /\ AccessErr(R, row, col) = NoError
             /\ Get(R, row, col) = At(pre, row, col)

\* C15 witness: a packed 2 x 2 Matrix whose elements (0, 1) and (1, 0)
\* differ was transposed twice
C15_Witness ==
  /\ pc = "undone" /\ op.name = "transpose" /\ Packed(pre)
  /\ pre.nrows = 2 /\ pre.ncols = 2
  /\ At(pre, 0, 1) # At(pre, 1, 0)
  /\ R.nrows = 2

\* every valid coordinate of m addresses an element inside the buffer, and
\* different valid coordinates address different elements
AddressesDistinct(m) ==
  /\ \A row \in 0..(m.nrows - 1), col \in 0..(m.ncols - 1) :
       AccessErr(m, row, col) = NoError
  /\ \A r1 \in 0..(m.nrows - 1), c1 \in 0..(m.ncols - 1),
        r2 \in 0..(m.nrows - 1), c2 \in 0..(m.ncols - 1) :
       (<<r1, c1>> # <<r2, c2>>)
         => m.row_stride * r1 + m.col_stride * c1
              # m.row_stride * r2 + m.col_stride * c2

\* C16 as stated, for every Matrix: a scalar_binary_apply(s, fn) that returns
\* leaves M unchanged and returns R of the same shape with
\* R(row, col) = fn(M(row, col), s); a scalar_binary_apply_inplace(s, fn) that
\* returns leaves M'(row, col) = fn(M(row, col), s) at every valid coordinate.
C16_ScalarApplyEveryMatrix ==
  /\ (pc = "done" /\ op.name = "scalar_binary_apply" /\ err = NoError)
     => /\ A = pre
        /\ R.nrows = pre.nrows /\ R.ncols = pre.ncols
        /\ \A row \in 0..(pre.nrows - 1), col \in 0..(pre.ncols - 1) :
             /\ AccessErr(R, row, col) = NoError
             /\ Get(R, row, col) = Apply(op.fn, Get(pre, row, col), op.val)
  /\ (pc = "done" /\ op.name = "scalar_binary_apply_inplace" /\ err = NoError)
     => \A row \in 0..(pre.nrows - 1), col \in 0..(pre.ncols - 1) :
          Get(A, row, col) = Apply(op.fn, Get(pre, row, col), op.val)

\* C16, amended: a scalar_binary_apply(s, fn) never changes M, and when it
\* returns, R has the shape of M and R(row, col) = fn(M(row, col), s) at
\* every valid coordinate; on a Matrix whose valid coordinates address
\* pairwise different elements inside the buffer (every packed Matrix),
\* scalar_binary_apply_inplace(s, fn) succeeds and leaves
\* M'(row, col) = fn(M(row, col), s), shape and strides unchanged.
C16_ScalarApplyDistinct ==
  /\ (pc = "done" /\ op.name = "scalar_binary_apply") => A = pre
  /\ (pc = "done" /\ op.name = "scalar_binary_apply" /\ err = NoError)
     => /\ R.nrows = pre.nrows /\ R.ncols = pre.ncols
        /\ \A row \in 0..(pre.nrows - 1), col \in 0..(pre.ncols - 1) :
             /\ AccessErr(R, row, col) = NoError
             /\ Get(R, row, col) = Apply(op.fn, Get(pre, row, col), op.val)
  /\ (pc = "done" /\ op.name = "scalar_binary_apply_inplace"
        /\ AddressesDistinct(pre))
     => /\ err = NoError
        /\ A.nrows = pre.nrows /\ A.ncols = pre.ncols
        /\ A.row_stride = pre.row_stride /\ A.col_stride = pre.col_stride
        /\ \A row \in 0..(pre.nrows - 1), col \in 0..(pre.ncols - 1) :
             Get(A, row, col) = Apply(op.fn, Get(pre, row, col), op.val)

\* C16 witness: 2 was subtracted in place from every element of a Matrix
\* with four elements whose coordinates address different buffer elements
C16_Witness ==
  /\ pc = "done" /\ op.name = "scalar_binary_apply_inplace"
  /\ AddressesDistinct(pre)
  /\ pre.nrows = 2 /\ pre.ncols = 2
  /\ op.fn = "sub" /\ op.val = 2
  /\ err = NoError

Shape(m) ==
  <<m.nrows, m.ncols, m.row_stride, m.col_stride, m.matrix_size, Len(m.data)>>

\* C18: once a constructor has set them, nrows, ncols, row_stride, col_stride,
\* matrix_size and the buffer length are changed by no accessor write,
\* row/column mutator or in-place primitive, whether it completes or raises
\* an error, and matrix_size = nrows * ncols holds after every step.
C18_ShapeFixed ==
  [][/\ A'.matrix_size = A'.nrows * A'.ncols
     /\ (pc # "start" => Shape(A') = Shape(A))]_vars

\* C18 witness: mult_row_scalar changed an element and then raised an error
\* on a later element of the row
C18_Witness ==
  /\ pc = "done" /\ op.name = "mult_row_scalar"
  /\ err # NoError
  /\ A.data # pre.data
  /\ Shape(A) = Shape(pre)

\* C19: in the first class definition, a call sub_row(row, what) with a valid
\* row never ends in a crash, and once it has returned every element of the
\* row is its original value minus what; a call sub_col(column, what) with a
\* valid column likewise, for the elements of the column.
C19_OldSubReturnsSubtracted ==
  /\ (op.name = "sub_row" /\ Packed(pre) /\ op.a1 < pre.nrows)
     => /\ pc # "crashed"
        /\ (pc = "done")
           => /\ err = NoError
              /\ \A col \in 0..(pre.ncols - 1) :
                   At(A, op.a1, col) = At(pre, op.a1, col) - op.val
  /\ (op.name = "sub_col" /\ Packed(pre) /\ op.a1 < pre.ncols)
     => /\ pc # "crashed"
        /\ (pc = "done")
           => /\ err = NoError
              /\ \A row \in 0..(pre.nrows - 1) :
                   At(A, row, op.a1) = At(pre, row, op.a1) - op.val

\* C20: a Matrix built by the dimensions-only, fill-value or literal-sequence
\* constructor has row_stride = ncols, col_stride = 1 and a buffer of
\* nrows * ncols elements; the accessor succeeds at every valid (row, col)
\* and addresses buffer index row * ncols + col; different valid coordinates
\* address different buffer elements, so a write through one coordinate
\* changes the value at no other coordinate.
C20_PackedAddressing ==
  /\ (ctor \in {"zeros", "fill", "literal"} /\ pc \in {"ready", "done"})
     => /\ A.row_stride = A.ncols /\ A.col_stride = 1
        /\ Len(A.data) = A.nrows * A.ncols
        /\ \A r1 \in 0..(A.nrows - 1), c1 \in 0..(A.ncols - 1),
              r2 \in 0..(A.nrows - 1), c2 \in 0..(A.ncols - 1) :
             (<<r1, c1>> # <<r2, c2>>)
               => r1 * A.row_stride + c1 * A.col_stride
                    # r2 * A.row_stride + c2 * A.col_stride
  /\ (ctor \in {"zeros", "fill", "literal"} /\ Accessed
        /\ op.a1 < pre.nrows /\ op.a2 < pre.ncols)
     => /\ err = NoError
        /\ ret = op.a1 * pre.ncols + op.a2
        /\ ret < Len(pre.data)
  /\ (ctor \in {"zeros", "fill", "literal"} /\ pc = "done"
        /\ op.name = "write" /\ op.a1 < pre.nrows /\ op.a2 < pre.ncols)
     => \A row \in 0..(pre.nrows - 1), col \in 0..(pre.ncols - 1) :
          A.data[row * pre.ncols + col + 1] =
            IF <<row, col>> = <<op.a1, op.a2>> THEN op.val
            ELSE pre.data[row * pre.ncols + col + 1]

\* C20 witness: element (1, 0) of a 2 x 2 Matrix built from a literal
\* sequence without a zero was overwritten with zero
C20_Witness ==
  /\ ctor = "literal" /\ pc = "done" /\ op.name = "write"
  /\ pre.nrows = 2 /\ pre.ncols = 2
  /\ \A i \in 1..Len(pre.data) : pre.data[i] # 0
  /\ op.a1 = 1 /\ op.a2 = 0 /\ op.val = 0
  /\ err = NoError

\* the mutators that walk along one or two rows, and those that take two
\* indices
RowMutators ==
  {"swap_row", "mult_row_scalar", "div_row_scalar", "add_row_scalar",
   "sub_row_scalar", "add_row_elementwise", "sub_row_elementwise"}
ColMutators ==
  {"swap_col", "mult_col_scalar", "div_col_scalar", "add_col_scalar",
   "sub_col_scalar", "add_col_elementwise", "sub_col_elementwise"}
TwoIndexMutators ==
  {"swap_row", "swap_col", "add_row_elementwise", "sub_row_elementwise",
   "add_col_elementwise", "sub_col_elementwise"}

\* C21: on a packed Matrix with at least one column, a row mutator called
\* with a row index out of range raises the logical-bounds error and leaves
\* the Matrix as it was before the call; on a packed Matrix with at least
\* one row, a column mutator called with a column index out of range does
\* the same.
C21_BadIndexNoWrite ==
  /\ (pc = "done" /\ op.name \in RowMutators /\ Packed(pre)
        /\ pre.ncols > 0
        /\ (op.a1 >= pre.nrows
              \/ (op.name \in TwoIndexMutators /\ op.a2 >= pre.nrows)))
     => (err = InvalidIndex /\ A = pre)
  /\ (pc = "done" /\ op.name \in ColMutators /\ Packed(pre)
        /\ pre.nrows > 0
        /\ (op.a1 >= pre.ncols
              \/ (op.name \in TwoIndexMutators /\ op.a2 >= pre.ncols)))
     => (err = InvalidIndex /\ A = pre)

\* C21 witness: add_col_elementwise was called on a packed Matrix with two
\* columns, at least two rows and no zero element, with a valid first column
\* and the second column one past the end
C21_Witness ==
  /\ pc = "done" /\ op.name = "add_col_elementwise" /\ Packed(pre)
  /\ pre.nrows >= 2 /\ pre.ncols = 2
  /\ \A i \in 1..Len(pre.data) : pre.data[i] # 0
  /\ op.a1 = 0 /\ op.a2 = 2
  /\ err = InvalidIndex /\ A = pre

====
